---------------------------- MODULE Spec2Model ----------------------------
(* A model of the dprint plugin cache manager of src/format/mod.ts:        *)
(* the lock file store (_getLockObject, writeLockFile), the resolution of  *)
(* one plugin URL (loadFormatterFromUrl), the cache reaper (cleanCacheDir) *)
(* and the orchestration of one run (getFormatters, main).                 *)
(*                                                                         *)
(* Strings and file contents are sequences of lexemes (TLA+ strings): a    *)
(* file is the sequence of lexemes of its text, a JavaScript string the    *)
(* sequence of its chunks.  JavaScript values are tagged records.          *)
EXTENDS Integers, Sequences, FiniteSets, TLC

(***************************************************************************)
(* JavaScript values                                                       *)
(***************************************************************************)
JUndefined == [t |-> "undefined"]
JNull == [t |-> "null"]
JBool(b) == [t |-> "bool", b |-> b]
JNum(n) == [t |-> "num", n |-> n]
JStr(s) == [t |-> "str", s |-> s]
\* An array: its elements and its other own properties (an association list).
JArr(a, p) == [t |-> "arr", a |-> a, p |-> p]
\* A plain object: its own properties in insertion order, as a sequence of
\* [k |-> key, v |-> value] with pairwise distinct keys.
JObj(p) == [t |-> "obj", p |-> p]

EmptyObject == JObj(<<>>)

RECURSIVE PropIndex(_, _, _)
PropIndex(p, k, i) ==
    IF i > Len(p) THEN 0
    ELSE IF p[i].k = k THEN i
    ELSE PropIndex(p, k, i + 1)

PropHas(p, k) == PropIndex(p, k, 1) # 0

PropGet(p, k) == IF PropHas(p, k) THEN p[PropIndex(p, k, 1)].v ELSE JUndefined

PropPut(p, k, v) ==
    IF PropHas(p, k)
    THEN [p EXCEPT ![PropIndex(p, k, 1)] = [k |-> k, v |-> v]]
    ELSE Append(p, [k |-> k, v |-> v])

PropDel(p, k) ==
    IF PropHas(p, k)
    THEN LET i == PropIndex(p, k, 1)
         IN  SubSeq(p, 1, i - 1) \o SubSeq(p, i + 1, Len(p))
    ELSE p

PropKeys(p) == {p[i].k : i \in 1..Len(p)}

\* The own properties of a value that can carry them.
OwnProps(o) ==
    IF o.t = "obj" THEN o.p
    ELSE IF o.t = "arr" THEN o.p
    ELSE <<>>

\* o[k] for a string key k that is no array index.
GetProp(o, k) == PropGet(OwnProps(o), k)

\* Is `o[k] = v` a TypeError?  The module is strict-mode code, where creating
\* a property on a primitive throws.
SetPropThrows(o) == o.t \notin {"obj", "arr"}

\* o after `o[k] = v`, for o an object or an array.
SetProp(o, k, v) ==
    IF o.t = "obj" THEN JObj(PropPut(o.p, k, v))
    ELSE IF o.t = "arr" THEN JArr(o.a, PropPut(o.p, k, v))
    ELSE o

\* o after `delete o[k]`.
DeleteProp(o, k) ==
    IF o.t = "obj" THEN JObj(PropDel(o.p, k))
    ELSE IF o.t = "arr" THEN JArr(o.a, PropDel(o.p, k))
    ELSE o

\* Object.entries(o), the values only; for null it throws (see ObjectEntriesThrows).
ObjectEntryValues(o) ==
    IF o.t = "obj" THEN [i \in 1..Len(o.p) |-> o.p[i].v]
    ELSE IF o.t = "arr" THEN o.a \o [i \in 1..Len(o.p) |-> o.p[i].v]
    ELSE IF o.t = "str" THEN [i \in 1..Len(o.s) |-> JStr(<<o.s[i]>>)]
    ELSE <<>>

ObjectEntriesThrows(o) == o.t \in {"null", "undefined"}

(***************************************************************************)
(* JSON.stringify(value, undefined, 4) and JSON.parse, on lexemes          *)
(***************************************************************************)
QUOTE == "\""
BACKSLASH == "\\"
NEWLINE == "\n"
INDENT == "    "
SPACE == " "

NumLexemes == {"0", "5"}

RECURSIVE Escape(_)
Escape(s) ==
    IF s = <<>> THEN <<>>
    ELSE (IF Head(s) \in {QUOTE, BACKSLASH} THEN <<BACKSLASH, Head(s)>> ELSE <<Head(s)>>)
         \o Escape(Tail(s))

Quote(s) == <<QUOTE>> \o Escape(s) \o <<QUOTE>>

RECURSIVE Indent(_)
Indent(depth) == IF depth = 0 THEN <<>> ELSE <<INDENT>> \o Indent(depth - 1)

RECURSIVE Stringify(_, _)
RECURSIVE StringifyItems(_, _, _, _)
\* The items of an array (keyed = FALSE, items are values) or of an object
\* (keyed = TRUE, items are [k, v]) from index i on, one per line.
StringifyItems(items, i, depth, keyed) ==
    IF i > Len(items) THEN <<>>
    ELSE <<NEWLINE>> \o Indent(depth)
         \o (IF keyed
             THEN Quote(items[i].k) \o <<":", SPACE>> \o Stringify(items[i].v, depth)
             ELSE Stringify(items[i], depth))
         \o (IF i < Len(items) THEN <<",">> ELSE <<>>)
         \o StringifyItems(items, i + 1, depth, keyed)

Stringify(v, depth) ==
    CASE v.t = "null" -> <<"null">>
      [] v.t = "bool" -> IF v.b THEN <<"true">> ELSE <<"false">>
      [] v.t = "num" -> <<v.n>>
      [] v.t = "str" -> Quote(v.s)
      [] v.t = "arr" ->
            \* only the elements: the other properties of an array are not serialized
            IF v.a = <<>> THEN <<"[", "]">>
            ELSE <<"[">> \o StringifyItems(v.a, 1, depth + 1, FALSE)
                 \o <<NEWLINE>> \o Indent(depth) \o <<"]">>
      [] v.t = "obj" ->
            IF v.p = <<>> THEN <<"{", "}">>
            ELSE <<"{">> \o StringifyItems(v.p, 1, depth + 1, TRUE)
                 \o <<NEWLINE>> \o Indent(depth) \o <<"}">>
      [] OTHER -> <<>>

JSONStringify(v) == Stringify(v, 0)

IsWs(tok) == tok \in {SPACE, NEWLINE, INDENT}

RECURSIVE SkipWs(_, _)
SkipWs(toks, i) ==
    IF i <= Len(toks) /\ IsWs(toks[i]) THEN SkipWs(toks, i + 1) ELSE i

ParseFail == [ok |-> FALSE, v |-> JUndefined, next |-> 0]
ParseOk(v, next) == [ok |-> TRUE, v |-> v, next |-> next]

\* The chunks of a string literal whose opening quote is before index i.
RECURSIVE ParseChars(_, _, _)
ParseChars(toks, i, acc) ==
    IF i > Len(toks) THEN ParseFail
    ELSE IF toks[i] = QUOTE THEN ParseOk(JStr(acc), i + 1)
    ELSE IF toks[i] = BACKSLASH
         THEN IF i + 1 > Len(toks) THEN ParseFail
              ELSE ParseChars(toks, i + 2, Append(acc, toks[i + 1]))
    ELSE IF toks[i] = NEWLINE THEN ParseFail
    ELSE ParseChars(toks, i + 1, Append(acc, toks[i]))

RECURSIVE ParseValue(_, _)
RECURSIVE ParseElements(_, _, _)
RECURSIVE ParseMembers(_, _, _)

\* The elements of an array after "[" or after a comma; first = no element yet.
ParseElements(toks, i0, acc) ==
    LET i == SkipWs(toks, i0) IN
    IF i > Len(toks) THEN ParseFail
    ELSE IF toks[i] = "]" /\ acc = <<>> THEN ParseOk(JArr(acc, <<>>), i + 1)
    ELSE LET r == ParseValue(toks, i) IN
         IF ~r.ok THEN ParseFail
         ELSE LET j == SkipWs(toks, r.next) IN
              IF j > Len(toks) THEN ParseFail
              ELSE IF toks[j] = "," THEN ParseElements(toks, j + 1, Append(acc, r.v))
              ELSE IF toks[j] = "]" THEN ParseOk(JArr(Append(acc, r.v), <<>>), j + 1)
              ELSE ParseFail

ParseMembers(toks, i0, acc) ==
    LET i == SkipWs(toks, i0) IN
    IF i > Len(toks) THEN ParseFail
    ELSE IF toks[i] = "}" /\ acc = <<>> THEN ParseOk(JObj(acc), i + 1)
    ELSE IF toks[i] # QUOTE THEN ParseFail
    ELSE LET k == ParseChars(toks, i + 1, <<>>) IN
         IF ~k.ok THEN ParseFail
         ELSE LET c == SkipWs(toks, k.next) IN
              IF c > Len(toks) \/ toks[c] # ":" THEN ParseFail
              ELSE LET r == ParseValue(toks, c + 1) IN
                   IF ~r.ok THEN ParseFail
                   ELSE LET j == SkipWs(toks, r.next)
                            acc2 == PropPut(acc, k.v.s, r.v)
                        IN  IF j > Len(toks) THEN ParseFail
                            ELSE IF toks[j] = "," THEN ParseMembers(toks, j + 1, acc2)
                            ELSE IF toks[j] = "}" THEN ParseOk(JObj(acc2), j + 1)
                            ELSE ParseFail

ParseValue(toks, i0) ==
    LET i == SkipWs(toks, i0) IN
    IF i > Len(toks) THEN ParseFail
    ELSE CASE toks[i] = "null" -> ParseOk(JNull, i + 1)
           [] toks[i] = "true" -> ParseOk(JBool(TRUE), i + 1)
           [] toks[i] = "false" -> ParseOk(JBool(FALSE), i + 1)
           [] toks[i] \in NumLexemes -> ParseOk(JNum(toks[i]), i + 1)
           [] toks[i] = QUOTE -> ParseChars(toks, i + 1, <<>>)
           [] toks[i] = "[" -> ParseElements(toks, i + 1, <<>>)
           [] toks[i] = "{" -> ParseMembers(toks, i + 1, <<>>)
           [] OTHER -> ParseFail

\* JSON.parse(text): ok = FALSE stands for the SyntaxError it throws.
JSONParse(text) ==
    LET r == ParseValue(text, 1) IN
    IF r.ok /\ SkipWs(text, r.next) > Len(text) THEN r ELSE ParseFail

\* Does formatText of the JSON plugin throw on this text?  The plugin parses
\* the text before it prints it.
FormatTextThrows(text) == ~JSONParse(text).ok

\* formatText of the JSON plugin (configured by getFormatters with an indent
\* of 4) on a text it can parse: the parsed document printed in the plugin's
\* layout, one item per line, with a final newline.
FormatText(text) == Stringify(JSONParse(text).v, 0) \o <<NEWLINE>>

(***************************************************************************)
(* Schema of the lock file                                                 *)
(***************************************************************************)
LOCK_FILE_NAME == <<"plugin-lock.json">>
FILE_NAME == <<"fileName">>
SHA512 == <<"sha512">>

IsString(v) == v.t = "str"

\* t.isObject({fileName: t.isString(), sha512: t.isString()}): an object with
\* these two string properties and no other property.
IsLockObjectEntry(v) ==
    /\ v.t \in {"obj", "arr"}
    /\ v.t = "arr" => v.a = <<>>
    /\ PropKeys(OwnProps(v)) \subseteq {FILE_NAME, SHA512}
    /\ IsString(GetProp(v, FILE_NAME))
    /\ IsString(GetProp(v, SHA512))

LockObjectEntry(fileName, sha512) ==
    JObj(<<[k |-> FILE_NAME, v |-> JStr(fileName)], [k |-> SHA512, v |-> JStr(sha512)]>>)

\* _isValidLockObject, for a value Object.entries accepts.
IsValidLockObject(lockObject) ==
    LET values == ObjectEntryValues(lockObject)
    IN  \A i \in 1..Len(values) : IsLockObjectEntry(values[i])

(***************************************************************************)
(* URLs, hashes, plugins                                                   *)
(***************************************************************************)
RECURSIVE UrlPathEnd(_, _)
\* The index after the last chunk of the path of a URL: the first "?" or "#".
UrlPathEnd(url, i) ==
    IF i > Len(url) THEN i
    ELSE IF url[i] \in {"?", "#"} THEN i
    ELSE UrlPathEnd(url, i + 1)

\* new URL(url).pathname; the first chunk of a URL is its scheme and host.
UrlPathname(url) ==
    LET path == SubSeq(url, 2, UrlPathEnd(url, 2) - 1)
    IN  IF path = <<>> THEN <<"/">> ELSE path

RECURSIVE StripTrailingSlashes(_)
StripTrailingSlashes(path) ==
    IF path # <<>> /\ path[Len(path)] = "/"
    THEN StripTrailingSlashes(SubSeq(path, 1, Len(path) - 1))
    ELSE path

\* posix.basename(path): the last segment, trailing slashes ignored.
PosixBasename(path) ==
    LET p == StripTrailingSlashes(path)
    IN  IF p = <<>> THEN <<>> ELSE <<p[Len(p)]>>

UrlToFileName(url) == PosixBasename(UrlPathname(url))

\* createHash("sha512").update(data).toString(): taken to be free of
\* collisions, and a string that is not the data.
HashSha512(data) == <<"sha512:">> \o data

WASM_MAGIC == "\\0asm"

\* Does createFromBuffer(buffer) throw?  It compiles a WebAssembly module.
CreateFromBufferThrows(buffer) == buffer = <<>> \/ buffer[1] # WASM_MAGIC

\* The Formatter createFromBuffer(buffer) makes: a new instance each time.
CreateFromBuffer(buffer, instance) == [id |-> instance, bytes |-> buffer]

NoFormatter == [id |-> 0, bytes |-> <<>>]

(***************************************************************************)
(* The universe of the model                                               *)
(***************************************************************************)
\* Calls of loadFormatterFromUrl in one process.
MaxCalls == 2
\* Calls of cleanCacheDir in one process.
MaxReaps == 1
\* Processes run one after the other on the same cache directory.
MaxProcesses == 2
\* Plugins in the catalog main fetches.
MaxPlugins == 2

\* U1 and U2 differ in host, directory and query and end in the same segment.
U1 == <<"https://h1", "/", "a.wasm">>
U2 == <<"https://h2", "/", "d", "/", "a.wasm", "?", "v=2">>
U3 == <<"https://h1", "/", "b.wasm">>
Urls == {U1, U2, U3}

WasmA == <<WASM_MAGIC, "A">>
WasmB == <<WASM_MAGIC, "B">>
\* What a fetch can deliver: a plugin, or the body of an error response.
Bodies == {WasmA, WasmB, <<"404 Not Found">>}
\* An error response whose body is a WebAssembly module.
ErrorWasm == <<WASM_MAGIC, "E">>
\* response.ok of the response that carries this body.
ResponseOk(body) == body \in {WasmA, WasmB}

\* A partial function with f[k] = v.
MapSet(f, k, v) == [x \in (DOMAIN f) \cup {k} |-> IF x = k THEN v ELSE f[x]]
MapRemove(f, k) == [x \in (DOMAIN f) \ {k} |-> f[x]]
EmptyMap == [x \in {} |-> <<>>]

VARIABLES
    \* The cache directory: dirExists, and files, the contents of the entries in
    \* it by name (the lock file among them).
    dirExists, files,
    \* Can the lock file be read?  "ok", or the I/O error reading it raises.
    lockFileAccess,
    \* The value #lockObject resolves to; JPending while _getLockObject runs,
    \* JRejected if it threw.
    lockObject,
    \* #formatters: the Formatter of each URL that has one.
    formatters,
    \* Calls of createFromBuffer that returned a Formatter so far.
    instances,
    \* The calls of loadFormatterFromUrl, in the order they were made.
    calls,
    \* Deno.writeFile calls of loadFormatterFromUrl that have not finished.
    writes,
    \* The calls of cleanCacheDir, and its Deno.remove calls that have not finished.
    reaps, removes,
    \* The calls of writeLockFile.
    lockWrites,
    \* main: where it is, and the plugins of the catalog it fetched.
    mainPc, catalog,
    \* The number of the process, and the lock object the process before it
    \* wrote to the lock file (JUndefined if it wrote none).
    process, persisted,
    \* The walk of main over the root directory: root, the contents of its
    \* files by path; todo, the paths still to visit; visited, the paths
    \* visited with what became of each; writes, the Deno.writeFile calls of
    \* the walk that have not finished; dryRun, the --dry-run flag.
    walk

vars == <<dirExists, files, lockFileAccess, lockObject, formatters, instances,
          calls, writes, reaps, removes, lockWrites, mainPc, catalog,
          process, persisted, walk>>

JPending == [t |-> "pending"]
JRejected == [t |-> "rejected"]

LockResolved == lockObject.t \notin {"pending", "rejected"}

(***************************************************************************)
(* _getLockObject                                                          *)
(***************************************************************************)
\* Deno.readFile(lockFilePath): the error it raises, or "ok".
ReadLockFileError(exists, present, access) ==
    IF ~exists \/ LOCK_FILE_NAME \notin DOMAIN present THEN "NotFound"
    ELSE access

\* A catch block that throws again what is neither a missing file nor a
\* corrupted lock file.
GetLockObjectCatch_Rethrows(error) ==
    IF error \in {"NotFound", "SyntaxError", "LockFileParseError"} THEN EmptyObject
    ELSE JRejected

\* What the catch block of _getLockObject does with an error: every error,
\* whatever its class, ends in `return {}`.
GetLockObjectCatch(error) == EmptyObject

\* _getLockObject(lockFilePath): the value the promise resolves to (JRejected
\* if it rejects).  error is the error of the read, text the file's content.
GetLockObject(error, text) ==
    IF error # "ok" THEN GetLockObjectCatch(error)
    ELSE LET parsed == JSONParse(text) IN
         IF ~parsed.ok THEN GetLockObjectCatch("SyntaxError")
         ELSE IF ObjectEntriesThrows(parsed.v) THEN GetLockObjectCatch("TypeError")
         ELSE IF ~IsValidLockObject(parsed.v) THEN GetLockObjectCatch("LockFileParseError")
         ELSE parsed.v

\* What a new DprintPluginManager on this cache directory loads.
LoadedLockObject(exists, present, access) ==
    LET error == ReadLockFileError(exists, present, access)
    IN  GetLockObject(error, IF error = "ok" THEN present[LOCK_FILE_NAME] ELSE <<>>)

\* The read of the constructor's _getLockObject call ends.
LoadLockFile ==
    /\ lockObject = JPending
    /\ lockObject' = LoadedLockObject(dirExists, files, lockFileAccess)
    /\ UNCHANGED <<dirExists, files, lockFileAccess, formatters, instances, calls,
                   writes, reaps, removes, lockWrites, mainPc, catalog,
                   process, persisted, walk>>

(***************************************************************************)
(* loadFormatterFromUrl                                                    *)
(*                                                                         *)
(* A call runs from one suspension point to the next in one step.  Its     *)
(* first await, of #lockObject, is of a settled promise once the lock file *)
(* is loaded: no I/O completes during it, so the call is started only then *)
(* and runs to its first I/O at once.                                      *)
(***************************************************************************)
\* pc: reading (Deno.readFile), fetching (fetch and arrayBuffer), mkdir
\* (Deno.mkdir), done (returned result), raised (threw error).
\* via: how it got there: mem (the Formatter was in #formatters), entry (the
\* lock entry's file is being read), hit (hashes match), mismatch, missing
\* (no such file), noentry (no valid lock entry).
\* entry: lockObjectEntry; buffer: the bytes read or fetched; newEntry: the
\* entry the call stored; reads, fetches, mkdirs, fileWrites: the I/O it issued.
NewCall(url) ==
    [url |-> url, pc |-> "raised", via |-> "none", error |-> "none",
     entry |-> JUndefined, buffer |-> <<>>, newEntry |-> JUndefined,
     result |-> NoFormatter,
     reads |-> 0, fetches |-> 0, mkdirs |-> 0, fileWrites |-> 0]

\* A lookup that never finds the Formatter.
CachedFormatter_Forgets(fmts, url) == NoFormatter

\* this.#formatters.get(url); NoFormatter stands for undefined.
CachedFormatter(fmts, url) == IF url \in DOMAIN fmts THEN fmts[url] ELSE NoFormatter

\* A comparison that never finds the hashes equal.
HashesMatch_Never(wasmHash, cachedHash) == FALSE

\* wasmHash === cachedHash
HashesMatch(wasmHash, cachedHash) == wasmHash = cachedHash

\* An entry with the hash of the file name in place of the hash of the bytes.
NewLockObjectEntry_HashesName(fileName, buffer) ==
    LockObjectEntry(fileName, HashSha512(fileName))

\* The value of lockObject[url] after a fetch of buffer.
NewLockObjectEntry(fileName, buffer) == LockObjectEntry(fileName, HashSha512(buffer))

\* A write of no bytes.
WrittenBytes_Nothing(buffer) == <<>>

\* The bytes Deno.writeFile is given after a fetch of buffer.
WrittenBytes(buffer) == buffer

\* A store that keeps the entry the URL already has.
StoreLockEntry_KeepsOld(lockObj, url, entry) ==
    IF PropHas(OwnProps(lockObj), url) THEN lockObj ELSE SetProp(lockObj, url, entry)

\* lockObject after `lockObject[url] = entry`.
StoreLockEntry(lockObj, url, entry) == SetProp(lockObj, url, entry)

ActiveCalls == {c \in 1..Len(calls) : calls[c].pc \notin {"done", "raised"}}

\* loadFormatterFromUrl(url) up to its readFile or its fetch: the call it
\* leaves behind.
StartedCall(url) ==
    LET cached == CachedFormatter(formatters, url)
        lockObjectEntry == GetProp(lockObject, url)
        call == NewCall(url)
    IN  IF cached # NoFormatter
        THEN [call EXCEPT !.pc = "done", !.via = "mem", !.result = cached]
        ELSE IF IsLockObjectEntry(lockObjectEntry)
        THEN [call EXCEPT !.pc = "reading", !.via = "entry",
                          !.entry = lockObjectEntry, !.reads = 1]
        ELSE [call EXCEPT !.pc = "fetching", !.via = "noentry", !.fetches = 1]

\* loadFormatterFromUrl(url) is called.
StartCall(url) ==
    /\ LockResolved
    /\ calls' = Append(calls, StartedCall(url))
    /\ UNCHANGED <<dirExists, files, lockFileAccess, lockObject, formatters, instances,
                   writes, reaps, removes, lockWrites, mainPc, catalog,
                   process, persisted, walk>>

\* Deno.readFile of the entry's file ends: with the bytes, or with NotFound.
ReadDone(c) ==
    /\ c \in 1..Len(calls)
    /\ calls[c].pc = "reading"
    /\ LET call == calls[c]
           name == GetProp(call.entry, FILE_NAME).s
           cachedHash == GetProp(call.entry, SHA512).s
       IN  IF ~dirExists \/ name \notin DOMAIN files
           THEN \* NotFound: delete lockObject[url], then fetch
                /\ lockObject' = DeleteProp(lockObject, call.url)
                /\ calls' = [calls EXCEPT ![c] =
                       [call EXCEPT !.pc = "fetching", !.via = "missing", !.fetches = 1]]
                /\ UNCHANGED <<formatters, instances>>
           ELSE IF HashesMatch(HashSha512(files[name]), cachedHash)
           THEN IF CreateFromBufferThrows(files[name])
                THEN \* caught, not a NotFound: thrown again
                     /\ calls' = [calls EXCEPT ![c] =
                            [call EXCEPT !.pc = "raised", !.error = "CompileError",
                                         !.buffer = files[name]]]
                     /\ UNCHANGED <<lockObject, formatters, instances>>
                ELSE LET formatter == CreateFromBuffer(files[name], instances + 1) IN
                     /\ instances' = instances + 1
                     /\ formatters' = MapSet(formatters, call.url, formatter)
                     /\ calls' = [calls EXCEPT ![c] =
                            [call EXCEPT !.pc = "done", !.via = "hit",
                                         !.buffer = files[name], !.result = formatter]]
                     /\ UNCHANGED lockObject
           ELSE \* checksum mismatch: a warning, then fetch
                /\ calls' = [calls EXCEPT ![c] =
                       [call EXCEPT !.pc = "fetching", !.via = "mismatch",
                                    !.buffer = files[name], !.fetches = 1]]
                /\ UNCHANGED <<lockObject, formatters, instances>>
    /\ UNCHANGED <<dirExists, files, lockFileAccess, writes, reaps, removes,
                   lockWrites, mainPc, catalog,
                   process, persisted, walk>>

\* Deno.readFile of the entry's file fails with another error than NotFound:
\* the catch block throws it again.
ReadFails(c) ==
    /\ c \in 1..Len(calls)
    /\ calls[c].pc = "reading"
    /\ calls' = [calls EXCEPT ![c] = [@ EXCEPT !.pc = "raised", !.error = "PermissionDenied"]]
    /\ UNCHANGED <<dirExists, files, lockFileAccess, lockObject, formatters, instances,
                   writes, reaps, removes, lockWrites, mainPc, catalog,
                   process, persisted, walk>>

\* fetch(url) and response.arrayBuffer() end with the bytes body, whatever the
\* status of the response: lines 381 to 387, up to the mkdir.
FetchDone(c, body) ==
    /\ c \in 1..Len(calls)
    /\ calls[c].pc = "fetching"
    /\ LET call == [calls[c] EXCEPT !.buffer = body]
           fileName == UrlToFileName(call.url)
           formatter == CreateFromBuffer(body, instances + 1)
           entry == NewLockObjectEntry(fileName, body)
       IN  IF CreateFromBufferThrows(body)
           THEN /\ calls' = [calls EXCEPT ![c] =
                       [call EXCEPT !.pc = "raised", !.error = "CompileError"]]
                /\ UNCHANGED <<lockObject, formatters, instances>>
           ELSE /\ instances' = instances + 1
                /\ formatters' = MapSet(formatters, call.url, formatter)
                /\ IF SetPropThrows(lockObject)
                   THEN /\ calls' = [calls EXCEPT ![c] =
                               [call EXCEPT !.pc = "raised", !.error = "TypeError"]]
                        /\ UNCHANGED lockObject
                   ELSE /\ lockObject' = StoreLockEntry(lockObject, call.url, entry)
                        /\ calls' = [calls EXCEPT ![c] =
                               [call EXCEPT !.pc = "mkdir", !.result = formatter,
                                            !.newEntry = entry, !.mkdirs = 1]]
    /\ UNCHANGED <<dirExists, files, lockFileAccess, writes, reaps, removes,
                   lockWrites, mainPc, catalog,
                   process, persisted, walk>>

\* fetch(url) rejects: a network error.
FetchFails(c) ==
    /\ c \in 1..Len(calls)
    /\ calls[c].pc = "fetching"
    /\ calls' = [calls EXCEPT ![c] = [@ EXCEPT !.pc = "raised", !.error = "NetworkError"]]
    /\ UNCHANGED <<dirExists, files, lockFileAccess, lockObject, formatters, instances,
                   writes, reaps, removes, lockWrites, mainPc, catalog,
                   process, persisted, walk>>

\* Deno.mkdir(cacheDir, {recursive: true}) ends: Deno.writeFile is called, not
\* awaited, and the Formatter returned.
MkdirDone(c) ==
    /\ c \in 1..Len(calls)
    /\ calls[c].pc = "mkdir"
    /\ dirExists' = TRUE
    /\ writes' = writes \cup {[by |-> c, name |-> UrlToFileName(calls[c].url),
                               data |-> WrittenBytes(calls[c].buffer)]}
    /\ calls' = [calls EXCEPT ![c] = [@ EXCEPT !.pc = "done", !.fileWrites = 1]]
    /\ UNCHANGED <<files, lockFileAccess, lockObject, formatters, instances,
                   reaps, removes, lockWrites, mainPc, catalog,
                   process, persisted, walk>>

\* Deno.mkdir fails: the error leaves loadFormatterFromUrl, after the Formatter
\* and the lock entry were stored.
MkdirFails(c) ==
    /\ c \in 1..Len(calls)
    /\ calls[c].pc = "mkdir"
    /\ calls' = [calls EXCEPT ![c] = [@ EXCEPT !.pc = "raised", !.error = "PermissionDenied"]]
    /\ UNCHANGED <<dirExists, files, lockFileAccess, lockObject, formatters, instances,
                   writes, reaps, removes, lockWrites, mainPc, catalog,
                   process, persisted, walk>>

\* A Deno.writeFile of loadFormatterFromUrl ends: the file holds the bytes.
WriteDone(w) ==
    /\ w \in writes
    /\ files' = MapSet(files, w.name, w.data)
    /\ writes' = writes \ {w}
    /\ UNCHANGED <<dirExists, lockFileAccess, lockObject, formatters, instances,
                   calls, reaps, removes, lockWrites, mainPc, catalog,
                   process, persisted, walk>>

(***************************************************************************)
(* cleanCacheDir                                                           *)
(***************************************************************************)
\* filesToKeep: the lock file unless removeLockFile, and entry.fileName for
\* every entry of Object.entries(lockObject).
FilesToKeep(lockObj, removeLockFile) ==
    LET values == ObjectEntryValues(lockObj)
    IN  (IF removeLockFile THEN {} ELSE {LOCK_FILE_NAME})
        \cup {GetProp(values[i], FILE_NAME).s : i \in 1..Len(values)}

\* The entries of the listing that cleanCacheDir removes.
NamesToRemove(listing, filesToKeep) == {n \in listing : n \notin filesToKeep}

\* cleanCacheDir({removeLockFile}) up to Deno.readDir: the call it leaves behind.
StartedReap(removeLockFile) ==
    [pc |-> "listing", removeLockFile |-> removeLockFile,
     keep |-> FilesToKeep(lockObject, removeLockFile)]

\* cleanCacheDir({removeLockFile}) is called.
StartReap(removeLockFile) ==
    /\ LockResolved
    /\ reaps' = Append(reaps, StartedReap(removeLockFile))
    /\ UNCHANGED <<dirExists, files, lockFileAccess, lockObject, formatters, instances,
                   calls, writes, removes, lockWrites, mainPc, catalog,
                   process, persisted, walk>>

\* Deno.readDir delivers the listing of the directory: Deno.remove is called,
\* not awaited, for every entry not kept, and the promise of cleanCacheDir
\* resolves.  Without the directory readDir throws NotFound.
ListDone(r) ==
    /\ r \in 1..Len(reaps)
    /\ reaps[r].pc = "listing"
    /\ IF dirExists
       THEN /\ removes' = removes \cup
                   {[by |-> r, name |-> n] : n \in NamesToRemove(DOMAIN files, reaps[r].keep)}
            /\ reaps' = [reaps EXCEPT ![r] = [@ EXCEPT !.pc = "done"]]
       ELSE /\ reaps' = [reaps EXCEPT ![r] = [@ EXCEPT !.pc = "raised"]]
            /\ UNCHANGED removes
    /\ UNCHANGED <<dirExists, files, lockFileAccess, lockObject, formatters, instances,
                   calls, writes, lockWrites, mainPc, catalog,
                   process, persisted, walk>>

\* A Deno.remove of cleanCacheDir ends: the entry is gone.
RemoveDone(x) ==
    /\ x \in removes
    /\ files' = MapRemove(files, x.name)
    /\ removes' = removes \ {x}
    /\ UNCHANGED <<dirExists, lockFileAccess, lockObject, formatters, instances,
                   calls, writes, reaps, lockWrites, mainPc, catalog,
                   process, persisted, walk>>

(***************************************************************************)
(* writeLockFile                                                           *)
(***************************************************************************)
\* The text writeLockFile writes: with a jsonFormatter, formatted by it.
LockFileText(lockObj, withFormatter) ==
    LET jsonText == JSONStringify(lockObj)
    IN  IF withFormatter /\ ~FormatTextThrows(jsonText) THEN FormatText(jsonText)
        ELSE jsonText

\* writeLockFile(jsonFormatter) up to Deno.writeFile: the call it leaves
\* behind, with the lock object it serialized.
StartedWriteLock(withFormatter) ==
    [pc |-> "writing", text |-> LockFileText(lockObject, withFormatter),
     from |-> lockObject]

\* writeLockFile(jsonFormatter) is called.
StartWriteLock(withFormatter) ==
    /\ LockResolved
    /\ lockWrites' = Append(lockWrites, StartedWriteLock(withFormatter))
    /\ UNCHANGED <<dirExists, files, lockFileAccess, lockObject, formatters, instances,
                   calls, writes, reaps, removes, mainPc, catalog,
                   process, persisted, walk>>

\* Deno.writeFile of the lock file ends; without the directory it throws NotFound.
LockWriteDone(k) ==
    /\ k \in 1..Len(lockWrites)
    /\ lockWrites[k].pc = "writing"
    /\ IF dirExists
       THEN /\ files' = MapSet(files, LOCK_FILE_NAME, lockWrites[k].text)
            /\ lockWrites' = [lockWrites EXCEPT ![k] = [@ EXCEPT !.pc = "done"]]
       ELSE /\ lockWrites' = [lockWrites EXCEPT ![k] = [@ EXCEPT !.pc = "raised"]]
            /\ UNCHANGED files
    /\ UNCHANGED <<dirExists, lockFileAccess, lockObject, formatters, instances,
                   calls, writes, reaps, removes, mainPc, catalog,
                   process, persisted, walk>>

(***************************************************************************)
(* One process after the other                                             *)
(***************************************************************************)
Quiescent ==
    /\ LockResolved
    /\ ActiveCalls = {}
    /\ writes = {}
    /\ removes = {}
    /\ \A r \in 1..Len(reaps) : reaps[r].pc # "listing"
    /\ \A k \in 1..Len(lockWrites) : lockWrites[k].pc # "writing"

\* The lock object of the last writeLockFile call that wrote the lock file.
LastPersisted ==
    LET done == {k \in 1..Len(lockWrites) : lockWrites[k].pc = "done"}
    IN  IF done = {} THEN JUndefined
        ELSE lockWrites[CHOOSE k \in done : \A j \in done : j <= k].from

\* The state of a DprintPluginManager as its constructor leaves it.
NewManager ==
    /\ lockObject' = JPending
    /\ formatters' = EmptyMap
    /\ instances' = 0
    /\ calls' = <<>>
    /\ writes' = {}
    /\ reaps' = <<>>
    /\ removes' = {}
    /\ lockWrites' = <<>>

\* The process has ended with no I/O left; the next one constructs its
\* DprintPluginManager on the same cache directory.
NewProcess ==
    /\ Quiescent
    /\ process' = process + 1
    /\ persisted' = LastPersisted
    /\ NewManager
    /\ UNCHANGED <<dirExists, files, lockFileAccess, mainPc, catalog, walk>>

(***************************************************************************)
(* getFormatters and main                                                  *)
(***************************************************************************)
\* The entries of json.latest: url, configKey and fileExtensions.
PluginInfos ==
    { [url |-> U1, configKey |-> "json", fileExtensions |-> {"json"}],
      [url |-> U2, configKey |-> "toml", fileExtensions |-> {"toml"}],
      [url |-> U3, configKey |-> "typescript", fileExtensions |-> {"ts", "tsx"}] }

Catalogs == UNION {[1..n -> PluginInfos] : n \in 0..MaxPlugins}

\* The calls Promise.all(json.latest.map(...)) starts, in the order of the
\* catalog: none of them changes what the next one reads before its first I/O.
StartedCalls(cat) == [i \in 1..Len(cat) |-> StartedCall(cat[i].url)]

\* pluginsByName.get("json") is a Formatter.
HasJsonFormatter(cat) == \E i \in 1..Len(cat) : cat[i].configKey = "json"

\* The fetch of the catalog ends with a valid document: getFormatters calls
\* loadFormatterFromUrl for every plugin of it.
CatalogDone(cat) ==
    /\ mainPc = "catalog"
    /\ LockResolved
    /\ catalog' = cat
    /\ calls' = calls \o StartedCalls(cat)
    /\ mainPc' = "resolving"
    /\ UNCHANGED <<dirExists, files, lockFileAccess, lockObject, formatters, instances,
                   writes, reaps, removes, lockWrites, process, persisted, walk>>

\* The fetch of the catalog fails, or its document is not a catalog:
\* getFormatters throws.
CatalogFails ==
    /\ mainPc = "catalog"
    /\ mainPc' = "failed"
    /\ UNCHANGED <<dirExists, files, lockFileAccess, lockObject, formatters, instances,
                   calls, writes, reaps, removes, lockWrites, catalog,
                   process, persisted, walk>>

\* Promise.all resolves: every call has returned its Formatter.  main goes on
\* to walk the root directory.
ResolveAllDone ==
    /\ mainPc = "resolving"
    /\ \A c \in 1..Len(calls) : calls[c].pc = "done"
    /\ mainPc' = "walking"
    /\ UNCHANGED <<dirExists, files, lockFileAccess, lockObject, formatters, instances,
                   calls, writes, reaps, removes, lockWrites, catalog,
                   process, persisted, walk>>

\* Promise.all rejects: a call has thrown, and main throws.
ResolveAllFails ==
    /\ mainPc = "resolving"
    /\ \E c \in 1..Len(calls) : calls[c].pc = "raised"
    /\ mainPc' = "failed"
    /\ UNCHANGED <<dirExists, files, lockFileAccess, lockObject, formatters, instances,
                   calls, writes, reaps, removes, lockWrites, catalog,
                   process, persisted, walk>>

\* A root directory with no file in it.
EmptyRoot == [root |-> EmptyMap, todo |-> <<>>, visited |-> <<>>, writes |-> {},
              dryRun |-> FALSE]

\* extname(filePath): the dot and what follows it, of a path of lexemes.
Extname(filePath) ==
    IF Len(filePath) >= 3 /\ filePath[Len(filePath) - 1] = "."
    THEN <<".", filePath[Len(filePath)]>>
    ELSE <<>>

\* The keys of pluginsByExtension.
PluginExtensions(cat) ==
    UNION {{<<".", e>> : e \in cat[i].fileExtensions} : i \in 1..Len(cat)}

\* getFormatterForFile(filePath) is a Formatter.
HasFormatterForFile(cat, filePath) == Extname(filePath) \in PluginExtensions(cat)

\* A walk that treats a file its plugin cannot format as one without changes.
WalkOutcome_ChecksFailures(cat, filePath, contents) ==
    IF ~HasFormatterForFile(cat, filePath) THEN "skipped"
    ELSE IF FormatTextThrows(contents) THEN "checked"
    ELSE IF contents # FormatText(contents) THEN "formatted"
    ELSE "checked"

\* What the body of the loop makes of a file it has read: skipped (no
\* plugin), error (formatText threw), formatted (hasChanges) or checked.
WalkOutcome(cat, filePath, contents) ==
    IF ~HasFormatterForFile(cat, filePath) THEN "skipped"
    ELSE IF FormatTextThrows(contents) THEN "error"
    ELSE IF contents # FormatText(contents) THEN "formatted"
    ELSE "checked"

\* One file of the walk: read, formatted, and when it has changes and this
\* is no dry run, Deno.writeFile called for it, not awaited.
WalkFile ==
    /\ mainPc = "walking"
    /\ walk.todo # <<>>
    /\ LET filePath == Head(walk.todo)
           contents == walk.root[filePath]
           outcome == WalkOutcome(catalog, filePath, contents)
       IN  walk' = [walk EXCEPT
                      !.todo = Tail(@),
                      !.visited = Append(@, [path |-> filePath, outcome |-> outcome]),
                      !.writes = IF outcome = "formatted" /\ ~walk.dryRun
                                 THEN @ \cup {[path |-> filePath, data |-> FormatText(contents)]}
                                 ELSE @]
    /\ UNCHANGED <<dirExists, files, lockFileAccess, lockObject, formatters, instances,
                   calls, writes, reaps, removes, lockWrites, mainPc, catalog,
                   process, persisted>>

\* Deno.readFile of a file of the walk fails: main throws.
WalkReadFails ==
    /\ mainPc = "walking"
    /\ walk.todo # <<>>
    /\ HasFormatterForFile(catalog, Head(walk.todo))
    /\ mainPc' = "failed"
    /\ UNCHANGED <<dirExists, files, lockFileAccess, lockObject, formatters, instances,
                   calls, writes, reaps, removes, lockWrites, catalog,
                   process, persisted, walk>>

\* A Deno.writeFile of the walk ends: the file holds the formatted text.
WalkWriteDone(w) ==
    /\ w \in walk.writes
    /\ walk' = [walk EXCEPT !.root = MapSet(@, w.path, w.data), !.writes = @ \ {w}]
    /\ UNCHANGED <<dirExists, files, lockFileAccess, lockObject, formatters, instances,
                   calls, writes, reaps, removes, lockWrites, mainPc, catalog,
                   process, persisted>>

\* The walk has ended: main calls cleanCacheDir() and then
\* writeLockFile(pluginsByName.get("json")), awaits neither, and returns.
WalkDone ==
    /\ mainPc = "walking"
    /\ walk.todo = <<>>
    /\ reaps' = Append(reaps, StartedReap(FALSE))
    /\ lockWrites' = Append(lockWrites, StartedWriteLock(HasJsonFormatter(catalog)))
    /\ mainPc' = "returned"
    /\ UNCHANGED <<dirExists, files, lockFileAccess, lockObject, formatters, instances,
                   calls, writes, removes, catalog, process, persisted, walk>>

(***************************************************************************)
(* Initial states: what a process can find on disk                         *)
(***************************************************************************)
HashA == HashSha512(WasmA)
HashB == HashSha512(WasmB)
NameA == <<"a.wasm">>
NameOld == <<"old.wasm">>

Text(v) == JSONStringify(v)
Manifest(pairs) == JObj(pairs)

\* Lock files written by earlier runs.
ValidLockDocs ==
    { Text(Manifest(<<>>)),
      Text(Manifest(<<[k |-> U1, v |-> LockObjectEntry(NameA, HashA)]>>)),
      Text(Manifest(<<[k |-> U2, v |-> LockObjectEntry(NameA, HashB)],
                      [k |-> U3, v |-> LockObjectEntry(NameOld, HashB)]>>)) }

\* Lock files that are not a manifest.
MalformedLockDocs ==
    { <<>>,
      <<"{", QUOTE, "https://h1">>,
      <<"null">>, <<"5">>, <<"true">>,
      <<QUOTE, QUOTE>>, <<QUOTE, "x", QUOTE>>,
      <<"[", "]">>, <<"[", "5", "]">>,
      Text(JArr(<<LockObjectEntry(NameA, HashA)>>, <<>>)),
      Text(JObj(<<[k |-> U1, v |-> JNum("5")]>>)),
      Text(JObj(<<[k |-> U1, v |-> JObj(<<[k |-> FILE_NAME, v |-> JStr(NameA)]>>)]>>)),
      Text(JObj(<<[k |-> U1, v |-> JObj(<<[k |-> FILE_NAME, v |-> JStr(NameA)],
                                          [k |-> SHA512, v |-> JNum("5")]>>)]>>)),
      Text(JObj(<<[k |-> U1, v |-> JObj(<<[k |-> FILE_NAME, v |-> JStr(NameA)],
                                          [k |-> SHA512, v |-> JStr(HashA)],
                                          [k |-> <<"extra">>, v |-> JNull]>>)]>>)) }

\* The artifacts in the cache directory: a.wasm as recorded, altered or
\* absent, and old.wasm.
InitArtifacts ==
    { MapSet(EmptyMap, NameA, WasmA), MapSet(EmptyMap, NameA, WasmB), EmptyMap,
      MapSet(MapSet(EmptyMap, NameA, WasmA), NameOld, WasmB) }

\* A cache directory with one of these lock files, or with none, or no directory.
InitDisk(lockDocs, artifacts) ==
    \/ /\ dirExists = FALSE
       /\ files = EmptyMap
    \/ /\ dirExists = TRUE
       /\ \E arts \in artifacts :
             \/ files = arts
             \/ \E doc \in lockDocs : files = MapSet(arts, LOCK_FILE_NAME, doc)

InitProcess ==
    /\ lockObject = JPending
    /\ formatters = EmptyMap
    /\ instances = 0
    /\ calls = <<>>
    /\ writes = {}
    /\ reaps = <<>>
    /\ removes = {}
    /\ lockWrites = <<>>
    /\ process = 1
    /\ persisted = JUndefined

\* The lock files of the runs of the resolver: the manifests, and two
\* documents _getLockObject accepts that are no manifest.
ResolverLockDocs == ValidLockDocs \cup {<<"5">>, <<"[", "]">>}

Init ==
    /\ InitDisk(ResolverLockDocs, InitArtifacts)
    /\ lockFileAccess = "ok"
    /\ InitProcess
    /\ mainPc = "library"
    /\ catalog = <<>>
    /\ walk = EmptyRoot

(***************************************************************************)
(* Spec: a client that calls loadFormatterFromUrl and cleanCacheDir at any *)
(* time                                                                    *)
(***************************************************************************)
CallSteps ==
    \/ \E c \in 1..Len(calls) : ReadDone(c)
    \/ \E c \in 1..Len(calls) : ReadFails(c)
    \/ \E c \in 1..Len(calls), body \in Bodies : FetchDone(c, body)
    \/ \E c \in 1..Len(calls) : FetchFails(c)
    \/ \E c \in 1..Len(calls) : MkdirDone(c)
    \/ \E c \in 1..Len(calls) : MkdirFails(c)
    \/ \E w \in writes : WriteDone(w)

Next ==
    \/ LoadLockFile
    \/ \E url \in Urls : Len(calls) < MaxCalls /\ StartCall(url)
    \/ CallSteps
    \/ \E removeLockFile \in BOOLEAN : Len(reaps) < MaxReaps /\ StartReap(removeLockFile)
    \/ \E r \in 1..Len(reaps) : ListDone(r)
    \/ \E x \in removes : RemoveDone(x)

Spec == Init /\ [][Next]_vars

(***************************************************************************)
(* SpecCalls: concurrent calls of loadFormatterFromUrl                     *)
(***************************************************************************)
InitCalls ==
    /\ InitDisk(ValidLockDocs, {MapSet(EmptyMap, NameA, WasmA), MapSet(EmptyMap, NameA, WasmB)})
    /\ lockFileAccess = "ok"
    /\ InitProcess
    /\ mainPc = "library"
    /\ catalog = <<>>
    /\ walk = EmptyRoot

NextCalls ==
    \/ LoadLockFile
    \/ \E url \in Urls : Len(calls) < MaxCalls /\ StartCall(url)
    \/ CallSteps

SpecCalls == InitCalls /\ [][NextCalls]_vars

(***************************************************************************)
(* SpecSeq: calls of loadFormatterFromUrl one after the other              *)
(***************************************************************************)
NextSeq ==
    \/ LoadLockFile
    \/ \E url \in Urls : Len(calls) < MaxCalls /\ ActiveCalls = {} /\ StartCall(url)
    \/ CallSteps

SpecSeq == Init /\ [][NextSeq]_vars

(***************************************************************************)
(* SpecStore: the lock file of one process read by the next                *)
(***************************************************************************)
InitStore ==
    /\ \/ /\ lockFileAccess = "ok"
          /\ InitDisk(ValidLockDocs \cup MalformedLockDocs, {MapSet(EmptyMap, NameA, WasmA)})
       \/ /\ lockFileAccess = "PermissionDenied"
          /\ InitDisk({Text(Manifest(<<[k |-> U1, v |-> LockObjectEntry(NameA, HashA)]>>))},
                      {MapSet(EmptyMap, NameA, WasmA)})
          /\ LOCK_FILE_NAME \in DOMAIN files
    /\ InitProcess
    /\ mainPc = "library"
    /\ catalog = <<>>
    /\ walk = EmptyRoot

\* The first process resolves plugins one after the other, each URL once, and
\* then writes the lock file, as main does; the processes after it only load
\* the lock file they find.
NextStore ==
    \/ LoadLockFile
    \/ \E url \in Urls :
          /\ process = 1 /\ Len(calls) < MaxCalls /\ ActiveCalls = {} /\ lockWrites = <<>>
          /\ writes = {}
          /\ \A c \in 1..Len(calls) : calls[c].url # url
          /\ StartCall(url)
    \/ CallSteps
    \/ \E withFormatter \in BOOLEAN :
          /\ process = 1 /\ lockWrites = <<>> /\ ActiveCalls = {}
          /\ StartWriteLock(withFormatter)
    \/ \E k \in 1..Len(lockWrites) : LockWriteDone(k)
    \/ process < MaxProcesses /\ NewProcess

SpecStore == InitStore /\ [][NextStore]_vars

(***************************************************************************)
(* SpecMain: one run of main                                               *)
(***************************************************************************)
InitMain ==
    /\ InitDisk(ResolverLockDocs, InitArtifacts)
    /\ lockFileAccess = "ok"
    /\ InitProcess
    /\ mainPc = "catalog"
    /\ catalog = <<>>
    /\ walk = EmptyRoot

NextMain ==
    \/ LoadLockFile
    \/ \E cat \in Catalogs : CatalogDone(cat)
    \/ CatalogFails
    \/ CallSteps
    \/ \E c \in 1..Len(calls) : FetchDone(c, ErrorWasm)
    \/ ResolveAllDone
    \/ ResolveAllFails
    \/ WalkDone
    \/ \E r \in 1..Len(reaps) : ListDone(r)
    \/ \E x \in removes : RemoveDone(x)
    \/ \E k \in 1..Len(lockWrites) : LockWriteDone(k)

SpecMain == InitMain /\ [][NextMain]_vars

(***************************************************************************)
(* SpecFresh: one run of main on an empty or absent cache directory, over  *)
(* a catalog of plugins with pairwise distinct derived file names.  No     *)
(* lock entry exists at the start, so no call reads a file, and nothing is *)
(* in the directory for cleanCacheDir to remove.                           *)
(***************************************************************************)
FreshCatalogs ==
    {cat \in Catalogs :
        /\ Len(cat) >= 1
        /\ \A i \in 1..Len(cat), j \in 1..Len(cat) :
              i # j => UrlToFileName(cat[i].url) # UrlToFileName(cat[j].url)}

InitFresh ==
    /\ dirExists \in BOOLEAN
    /\ files = EmptyMap
    /\ lockFileAccess = "ok"
    /\ InitProcess
    /\ mainPc = "catalog"
    /\ catalog = <<>>
    /\ walk = EmptyRoot

NextFresh ==
    \/ LoadLockFile
    \/ \E cat \in FreshCatalogs : CatalogDone(cat)
    \/ CatalogFails
    \/ \E c \in 1..Len(calls) :
          \/ \E body \in Bodies : FetchDone(c, body)
          \/ FetchFails(c)
          \/ MkdirDone(c)
          \/ MkdirFails(c)
    \/ \E w \in writes : WriteDone(w)
    \/ ResolveAllDone
    \/ ResolveAllFails
    \/ WalkDone
    \/ \E r \in 1..Len(reaps) : ListDone(r)
    \/ \E k \in 1..Len(lockWrites) : LockWriteDone(k)

SpecFresh == InitFresh /\ [][NextFresh]_vars

(***************************************************************************)
(* SpecWalk: one run of main on a fresh cache directory, over a root       *)
(* directory with files the JSON plugin formats, cannot format, or leaves  *)
(* as they are, and a file no plugin is for.                               *)
(***************************************************************************)
PathA == <<"a", ".", "json">>
PathB == <<"b", ".", "json">>
PathNotes == <<"notes", ".", "md">>

InvalidJson == <<"{">>
UnformattedJson == <<"[", "5", "]">>
FormattedJson == FormatText(UnformattedJson)

WalkInputs ==
    { [root |-> MapSet(MapSet(MapSet(EmptyMap, PathA, a), PathB, b), PathNotes, <<"text">>),
       todo |-> <<PathA, PathB, PathNotes>>, visited |-> <<>>, writes |-> {},
       dryRun |-> d] :
      a \in {InvalidJson, UnformattedJson, FormattedJson},
      b \in {InvalidJson, UnformattedJson},
      d \in BOOLEAN }

InitWalk ==
    /\ dirExists \in BOOLEAN
    /\ files = EmptyMap
    /\ lockFileAccess = "ok"
    /\ InitProcess
    /\ mainPc = "catalog"
    /\ catalog = <<>>
    /\ walk \in WalkInputs

NextWalk ==
    \/ NextFresh
    \/ WalkFile
    \/ WalkReadFails
    \/ \E w \in walk.writes : WalkWriteDone(w)

SpecWalk == InitWalk /\ [][NextWalk]_vars

(***************************************************************************)
(* SpecCallsFair: concurrent calls of loadFormatterFromUrl, every I/O      *)
(* operation that a call started ending at last, with its result or with   *)
(* an error.  A call is in `calls` once the lock file is loaded, so that    *)
(* the load needs no fairness of its own.                                  *)
(***************************************************************************)
\* The lock file has entries for U2, whose file is there with the recorded
\* bytes, and for U3, whose file is missing.
InitCallsFair ==
    /\ dirExists = TRUE
    /\ files = MapSet(MapSet(EmptyMap, NameA, WasmB), LOCK_FILE_NAME,
                      Text(Manifest(<<[k |-> U2, v |-> LockObjectEntry(NameA, HashB)],
                                      [k |-> U3, v |-> LockObjectEntry(NameOld, HashB)]>>)))
    /\ lockFileAccess = "ok"
    /\ InitProcess
    /\ mainPc = "library"
    /\ catalog = <<>>
    /\ walk = EmptyRoot

NextCallsFair ==
    \/ LoadLockFile
    \/ \E url \in {U2, U3} : Len(calls) < MaxCalls /\ StartCall(url)
    \/ CallSteps

SpecCallsFair ==
    InitCallsFair /\ [][NextCallsFair]_vars /\ WF_vars(CallSteps)

(***************************************************************************)
(* The claims                                                              *)
(***************************************************************************)
EntryFileName(entry) == GetProp(entry, FILE_NAME).s
EntryHash(entry) == GetProp(entry, SHA512).s

\* Has call c no write of its own pending?
WriteLanded(c) == \A w \in writes : w.by # c

\* Call c issued no I/O at all.
NoIO(call) ==
    call.reads = 0 /\ call.fetches = 0 /\ call.mkdirs = 0 /\ call.fileWrites = 0

\* C1: once loadFormatterFromUrl(url) has returned, a later call for the same
\* url, made after it, returns the same Formatter instance in the step that
\* makes it, issues no read, fetch, mkdir or write, and changes neither the
\* lock object nor the formatter map nor the disk.
C1_SecondCallReturnsCached ==
    [][\A c \in 1..Len(calls) :
          ( /\ calls[c].pc = "done"
            /\ Len(calls') = Len(calls) + 1
            /\ calls'[Len(calls')].url = calls[c].url )
          => LET second == calls'[Len(calls')]
             IN  /\ second.pc = "done"
                 /\ second.result = calls[c].result
                 /\ NoIO(second)
                 /\ lockObject' = lockObject
                 /\ formatters' = formatters
                 /\ files' = files /\ dirExists' = dirExists /\ writes' = writes
      ]_vars

\* C1 witness: a call fetched or read its plugin, and a later call for the
\* same URL was served from memory.
C1_Witness ==
    \E c \in 1..Len(calls), d \in 1..Len(calls) :
        /\ c < d
        /\ calls[c].url = calls[d].url
        /\ calls[c].pc = "done" /\ calls[c].via # "mem"
        /\ calls[d].pc = "done" /\ calls[d].via = "mem"

\* C2: when the read of the entry's file delivers bytes whose SHA-512 is the
\* hash of the entry, the call returns, in that step, a new Formatter made of
\* exactly these bytes, has issued no fetch, mkdir or write, and the lock
\* object and the disk are as before.
C2_CacheHitNoFetch ==
    [][\A c \in 1..Len(calls) :
          ( /\ calls[c].pc = "reading"
            /\ calls'[c].pc # "reading"
            /\ calls'[c].error # "PermissionDenied"
            /\ dirExists
            /\ EntryFileName(calls[c].entry) \in DOMAIN files
            /\ HashSha512(files[EntryFileName(calls[c].entry)]) = EntryHash(calls[c].entry) )
          => /\ calls'[c].pc = "done"
             /\ calls'[c].result.bytes = files[EntryFileName(calls[c].entry)]
             /\ calls'[c].result.id = instances + 1
             /\ formatters'[calls[c].url] = calls'[c].result
             /\ calls'[c].fetches = 0 /\ calls'[c].mkdirs = 0 /\ calls'[c].fileWrites = 0
             /\ lockObject' = lockObject
             /\ files' = files /\ writes' = writes
      ]_vars

\* C2 witness: a call returned a Formatter made of the cached file.
C2_Witness ==
    \E c \in 1..Len(calls) :
        /\ calls[c].pc = "done" /\ calls[c].via = "hit"
        /\ calls[c].result.bytes = calls[c].buffer

\* What C3 and C4 say of a call that went to the network after its lock entry
\* failed in the way `via`: one fetch; once it has returned, the lock object
\* holds for its URL the entry with the derived file name and the SHA-512 of
\* the fetched bytes; and when its write ends, the file holds bytes with the
\* hash of that entry.
RefetchedState(via) ==
    \A c \in 1..Len(calls) :
        calls[c].via = via =>
            /\ calls[c].fetches = 1
            /\ calls[c].pc = "done" =>
                  /\ calls[c].result.bytes = calls[c].buffer
                  /\ IsLockObjectEntry(GetProp(lockObject, calls[c].url))
                  /\ EntryFileName(GetProp(lockObject, calls[c].url)) = UrlToFileName(calls[c].url)
                  /\ EntryHash(GetProp(lockObject, calls[c].url)) = HashSha512(calls[c].buffer)

RefetchedWrite(via) ==
    \A w \in writes :
        (w \notin writes' /\ calls[w.by].via = via)
        => /\ w.name \in DOMAIN files'
           /\ HashSha512(files'[w.name]) = EntryHash(GetProp(lockObject', calls[w.by].url))

\* C3: a call whose lock entry names a file that is not there deletes the
\* entry, fetches once, and ends with an entry for its URL whose hash is the
\* SHA-512 of the bytes it writes to the artifact file.
C3_MissingFileRefetched ==
    /\ []RefetchedState("missing")
    /\ [][ /\ RefetchedWrite("missing")
           /\ \A c \in 1..Len(calls) :
                 ( /\ calls[c].pc = "reading"
                   /\ calls'[c].pc # "reading"
                   /\ calls'[c].error # "PermissionDenied"
                   /\ (~dirExists \/ EntryFileName(calls[c].entry) \notin DOMAIN files) )
                 => /\ calls'[c].via = "missing"
                    /\ calls'[c].pc = "fetching"
                    /\ ~PropHas(OwnProps(lockObject'), calls[c].url)
         ]_vars

\* C3 witness: such a call has returned and its write has ended.
C3_Witness ==
    \E c \in 1..Len(calls) :
        /\ calls[c].via = "missing" /\ calls[c].pc = "done" /\ WriteLanded(c)
        /\ files[UrlToFileName(calls[c].url)] = calls[c].buffer

\* C4 as claimed: after a checksum mismatch the call never makes a Formatter
\* of the bytes on disk, fetches, and ends with an entry whose hash is the
\* SHA-512 of the fetched bytes and is not the hash the stale entry recorded.
C4_Original_NeverStaleHash ==
    \A c \in 1..Len(calls) :
        (calls[c].via = "mismatch" /\ calls[c].pc = "done")
        => /\ calls[c].fetches = 1
           /\ EntryHash(GetProp(lockObject, calls[c].url)) = HashSha512(calls[c].buffer)
           /\ EntryHash(GetProp(lockObject, calls[c].url)) # EntryHash(calls[c].entry)

\* C4, amended: after a checksum mismatch the call makes no Formatter of the
\* bytes on disk, fetches once, and ends with an entry for its URL whose hash
\* is the SHA-512 of the fetched bytes, which are the bytes it writes to the
\* artifact file; that hash is the one the stale entry recorded whenever the
\* remote source still serves the bytes recorded.
C4_MismatchRefetched ==
    /\ []RefetchedState("mismatch")
    /\ [][ /\ RefetchedWrite("mismatch")
           /\ \A c \in 1..Len(calls) :
                 ( /\ calls[c].pc = "reading"
                   /\ calls'[c].pc # "reading"
                   /\ calls'[c].error # "PermissionDenied"
                   /\ dirExists
                   /\ EntryFileName(calls[c].entry) \in DOMAIN files
                   /\ HashSha512(files[EntryFileName(calls[c].entry)]) # EntryHash(calls[c].entry) )
                 => /\ calls'[c].via = "mismatch"
                    /\ calls'[c].pc = "fetching"
                    /\ instances' = instances
                    /\ formatters' = formatters
         ]_vars

\* C4 witness: a call has returned after a mismatch, its write has ended, and
\* the hash of its entry is the one the stale entry recorded.
C4_Witness ==
    \E c \in 1..Len(calls) :
        /\ calls[c].via = "mismatch" /\ calls[c].pc = "done" /\ WriteLanded(c)
        /\ EntryHash(GetProp(lockObject, calls[c].url)) = EntryHash(calls[c].entry)
        /\ files[UrlToFileName(calls[c].url)] = calls[c].buffer

\* The file names of the entries of the lock object.
ManifestFileNames(lockObj) == FilesToKeep(lockObj, TRUE)

\* C5 as claimed: in the step in which the promise of cleanCacheDir resolves,
\* every entry left in the cache directory is the lock file (if it is kept) or
\* the file of a lock entry, and the file of every lock entry is there.
C5_ReapedDirectoryMatchesManifest ==
    [][\A r \in 1..Len(reaps) :
          (reaps[r].pc = "listing" /\ reaps'[r].pc = "done")
          => /\ \A n \in DOMAIN files' :
                   \/ n = LOCK_FILE_NAME /\ ~reaps[r].removeLockFile
                   \/ n \in ManifestFileNames(lockObject')
             /\ \A n \in ManifestFileNames(lockObject') : n \in DOMAIN files'
      ]_vars

\* Is this text no lock file: no JSON, or no object, or an object with a
\* value that is not {fileName: string, sha512: string}?
IsMalformedDoc(text) ==
    LET parsed == JSONParse(text) IN
    \/ ~parsed.ok
    \/ parsed.v.t # "obj"
    \/ \E i \in 1..Len(parsed.v.p) :
          LET e == parsed.v.p[i].v IN
          \/ e.t # "obj"
          \/ PropKeys(e.p) # {FILE_NAME, SHA512}
          \/ ~IsString(GetProp(e, FILE_NAME))
          \/ ~IsString(GetProp(e, SHA512))

\* The process found this lock file, and nothing has written it since.
LockFileAsFound ==
    /\ process = 1
    /\ \A k \in 1..Len(lockWrites) : lockWrites[k].pc # "done"
    /\ dirExists
    /\ LOCK_FILE_NAME \in DOMAIN files

\* C6 as claimed: a malformed lock file loads as the empty object, and the
\* lock object stays a plain object in which no later call fails to store its
\* entry.
C6_MalformedLoadsEmpty ==
    (LockFileAsFound /\ lockFileAccess = "ok" /\ IsMalformedDoc(files[LOCK_FILE_NAME])
     /\ lockObject # JPending)
    => /\ lockObject # JRejected
       /\ calls = <<>> => lockObject = EmptyObject
       /\ lockObject.t = "obj"
       /\ \A c \in 1..Len(calls) : calls[c].error # "TypeError"

\* C7 as claimed: when reading the lock file fails with another error than
\* NotFound, _getLockObject rejects.
C7_Original_ReadErrorPropagates ==
    (LockFileAsFound /\ lockFileAccess # "ok" /\ lockObject # JPending)
    => lockObject = JRejected

\* C7, amended: when reading the lock file fails with another error than
\* NotFound (permission denied), _getLockObject swallows the error as it does
\* NotFound: the lock object is the empty object, and resolution goes on with
\* it.
C7_ReadErrorStartsEmpty ==
    (LockFileAsFound /\ lockFileAccess # "ok" /\ lockObject # JPending)
    => /\ LockResolved
       /\ calls = <<>> => lockObject = EmptyObject
       /\ lockObject.t = "obj"

\* C7 witness: the lock file could not be read, and a plugin was resolved.
C7_Witness ==
    /\ LockFileAsFound /\ lockFileAccess = "PermissionDenied"
    /\ \E c \in 1..Len(calls) : calls[c].pc = "done" /\ IsLockObjectEntry(GetProp(lockObject, calls[c].url))

\* The entries of two lock objects are the same: the same keys, and for each
\* the same fileName and sha512.
SameEntries(a, b) ==
    /\ PropKeys(OwnProps(a)) = PropKeys(OwnProps(b))
    /\ \A k \in PropKeys(OwnProps(a)) :
          /\ GetProp(GetProp(a, k), FILE_NAME) = GetProp(GetProp(b, k), FILE_NAME)
          /\ GetProp(GetProp(a, k), SHA512) = GetProp(GetProp(b, k), SHA512)

\* C8 as claimed: the lock object the next process loads has the entries of
\* the lock object the process before it wrote with writeLockFile.
C8_RoundTrip ==
    ( /\ process > 1
      /\ persisted # JUndefined
      /\ PropKeys(OwnProps(persisted)) # {}
      /\ lockFileAccess = "ok"
      /\ lockObject # JPending )
    => /\ LockResolved
       /\ SameEntries(lockObject, persisted)

\* C9 as claimed: while cleanCacheDir lists the directory or removes entries,
\* no call of loadFormatterFromUrl is running and no artifact write pending.
C9_ReaperAfterAllWrites ==
    ( \/ \E r \in 1..Len(reaps) : reaps[r].pc = "listing"
      \/ removes # {} )
    => /\ ActiveCalls = {}
       /\ writes = {}

\* C10 as claimed: once the write of the lock file has begun, cleanCacheDir
\* has returned and every removal it issued has ended; and main writes the
\* lock file once.
C10_LockWrittenAfterReap ==
    /\ Len(lockWrites) <= 1
    /\ (\E k \in 1..Len(lockWrites) : lockWrites[k].pc \in {"writing", "done"})
       => /\ Len(reaps) = 1
          /\ reaps[1].pc = "done"
          /\ removes = {}

\* Call c went to the network and got no plugin: fetch rejected, or the
\* response was not a success.
FetchFailed(c) ==
    /\ calls[c].fetches = 1
    /\ calls[c].pc # "fetching"
    /\ \/ calls[c].error = "NetworkError"
       \/ calls[c].error # "NetworkError" /\ ~ResponseOk(calls[c].buffer)

\* C11 as claimed: when the fetch of the catalog or of a plugin fails, main
\* throws and calls neither cleanCacheDir nor writeLockFile; the call whose
\* fetch failed throws, and no Formatter, no lock entry and no file is made of
\* the failed response.
C11_FetchFailureAborts ==
    /\ mainPc = "failed" => (reaps = <<>> /\ lockWrites = <<>>)
    /\ \A c \in 1..Len(calls) :
          FetchFailed(c)
          => /\ calls[c].pc = "raised"
             /\ mainPc \in {"resolving", "failed"}
             /\ reaps = <<>> /\ lockWrites = <<>>
             /\ calls[c].error = "NetworkError"
                \/ /\ \A u \in DOMAIN formatters : formatters[u].bytes # calls[c].buffer
                   /\ \A w \in writes : w.data # calls[c].buffer
                   /\ \A n \in DOMAIN files : files[n] # calls[c].buffer
                   /\ \A k \in PropKeys(OwnProps(lockObject)) :
                         GetProp(GetProp(lockObject, k), SHA512) # JStr(HashSha512(calls[c].buffer))

\* main has returned and no I/O of the run is left.
RunQuiesced == mainPc = "returned" /\ Quiescent

CatalogUrls == {catalog[i].url : i \in 1..Len(catalog)}

\* C12: once a run of main on an empty or absent cache directory, over a
\* catalog of URLs with pairwise distinct file names, has returned and
\* quiesced, every URL was fetched exactly once by its one call and no file
\* was read; the cache directory holds the lock file and, for every URL, the
\* file with its derived name and the fetched bytes, and nothing else; and
\* the lock file on disk is an object with exactly the URLs as its keys, each
\* with its derived file name and the hash of its bytes.
C12_FreshRun ==
    RunQuiesced =>
       /\ Len(calls) = Len(catalog)
       /\ \A c \in 1..Len(calls) :
             /\ calls[c].url = catalog[c].url
             /\ calls[c].fetches = 1 /\ calls[c].reads = 0
             /\ UrlToFileName(calls[c].url) \in DOMAIN files
             /\ files[UrlToFileName(calls[c].url)] = calls[c].buffer
       /\ DOMAIN files = {LOCK_FILE_NAME} \cup {UrlToFileName(u) : u \in CatalogUrls}
       /\ Cardinality(DOMAIN files) = Len(catalog) + 1
       /\ LET parsed == JSONParse(files[LOCK_FILE_NAME]) IN
             /\ parsed.ok
             /\ parsed.v.t = "obj"
             /\ Len(parsed.v.p) = Len(catalog)
             /\ PropKeys(parsed.v.p) = CatalogUrls
             /\ \A c \in 1..Len(calls) :
                   GetProp(parsed.v, calls[c].url)
                      = LockObjectEntry(UrlToFileName(calls[c].url), HashSha512(calls[c].buffer))

\* C12 witness: a run over two plugins has quiesced, the lock file written
\* before the reaper listed the directory.
C12_Witness ==
    /\ RunQuiesced
    /\ Len(catalog) = 2
    /\ LOCK_FILE_NAME \in DOMAIN files
    /\ \A c \in 1..Len(calls) : calls[c].via = "noentry" /\ calls[c].pc = "done"

\* The paths the walk found formatText to throw for.
FailedPaths == {walk.visited[i].path : i \in {j \in 1..Len(walk.visited) : walk.visited[j].outcome = "error"}}

\* C13: when formatText throws for a file of the walk, the step reports the
\* file as an error, calls no Deno.writeFile for it, leaves its content as it
\* is, and main goes on with the next file; such a file never has a write
\* pending and keeps the content formatText threw for; and when main has
\* returned, every file of the root was visited, and cleanCacheDir and
\* writeLockFile were each called once.
C13_FormatFailureIsLocal ==
    /\ [](\A p \in FailedPaths :
             /\ \A w \in walk.writes : w.path # p
             /\ FormatTextThrows(walk.root[p]))
    /\ [](mainPc = "returned"
             => /\ {walk.visited[i].path : i \in 1..Len(walk.visited)} = DOMAIN walk.root
                /\ Len(reaps) = 1 /\ Len(lockWrites) = 1)
    /\ [][ ( /\ mainPc = "walking"
             /\ walk.todo # <<>>
             /\ Len(walk'.visited) = Len(walk.visited) + 1
             /\ HasFormatterForFile(catalog, Head(walk.todo))
             /\ FormatTextThrows(walk.root[Head(walk.todo)]) )
           => /\ walk'.visited[Len(walk'.visited)] = [path |-> Head(walk.todo), outcome |-> "error"]
              /\ walk'.root = walk.root
              /\ walk'.writes = walk.writes
              /\ walk'.todo = Tail(walk.todo)
              /\ mainPc' = "walking"
         ]_vars

\* C13 witness: main has returned from a walk in which formatText threw for
\* the first file and the file after it was formatted and written.
C13_Witness ==
    /\ mainPc = "returned"
    /\ Len(walk.visited) = 3
    /\ walk.visited[1].outcome = "error"
    /\ walk.visited[2].outcome = "formatted"
    /\ walk.writes = {}
    /\ walk.root[PathB] = FormattedJson
    /\ walk.root[PathA] = InvalidJson

\* Calls c and d, for one URL, both fetched and got the same plugin from a
\* success response, and none of their I/O failed.
FetchedTheSame(c, d) ==
    /\ c < d
    /\ calls[c].url = calls[d].url
    /\ calls[c].fetches = 1 /\ calls[d].fetches = 1
    /\ calls[c].pc # "fetching" /\ calls[d].pc # "fetching"
    /\ calls[c].error \notin {"NetworkError", "PermissionDenied"}
    /\ calls[d].error \notin {"NetworkError", "PermissionDenied"}
    /\ calls[c].buffer = calls[d].buffer
    /\ ResponseOk(calls[c].buffer)

\* C14 as claimed: two calls for one URL that both fetch the same content,
\* with no other call and no reaper about, both return a Formatter; and when
\* both have returned and their writes have ended, the lock object has the
\* entry of the URL, with the derived file name and the SHA-512 of the
\* content of that file.
C14_SameIdConcurrent ==
    \A c \in 1..Len(calls), d \in 1..Len(calls) :
        (FetchedTheSame(c, d) /\ Len(calls) = 2 /\ reaps = <<>>)
        => /\ calls[c].pc \in {"mkdir", "done"}
           /\ calls[d].pc \in {"mkdir", "done"}
           /\ (calls[c].pc = "done" /\ calls[d].pc = "done" /\ writes = {})
              => LET entry == GetProp(lockObject, calls[c].url)
                     fileName == UrlToFileName(calls[c].url)
                 IN  /\ IsLockObjectEntry(entry)
                     /\ EntryFileName(entry) = fileName
                     /\ fileName \in DOMAIN files
                     /\ EntryHash(entry) = HashSha512(files[fileName])

\* Call c made a Formatter with createFromBuffer.
Decoded(c) ==
    /\ calls[c].via # "mem"
    /\ calls[c].result # NoFormatter \/ calls[c].error = "TypeError"

\* C15 as claimed: for every URL at most one call decodes, and all the calls
\* for it that have returned, overlapping or not, returned one Formatter.
C15_Original_DecodedOnce ==
    \A c \in 1..Len(calls), d \in 1..Len(calls) :
        (c # d /\ calls[c].url = calls[d].url)
        => /\ ~(Decoded(c) /\ Decoded(d))
           /\ (calls[c].pc = "done" /\ calls[d].pc = "done")
              => calls[c].result = calls[d].result

\* C15, amended: a call decodes at most once, and only when #formatters had
\* no Formatter for its URL as it was called; a call made when #formatters
\* has one returns that instance and decodes nothing.  Calls for one URL that
\* overlap each decode, and return instances of their own.
C15_DecodeOnMissOnly ==
    /\ [](instances = Cardinality({c \in 1..Len(calls) : Decoded(c)}))
    /\ [](\A c \in 1..Len(calls), d \in 1..Len(calls) :
             (c # d /\ Decoded(c) /\ Decoded(d)
              /\ calls[c].result # NoFormatter /\ calls[d].result # NoFormatter)
             => calls[c].result.id # calls[d].result.id)
    /\ [][ (Len(calls') = Len(calls) + 1 /\ calls'[Len(calls')].url \in DOMAIN formatters)
           => /\ calls'[Len(calls')].pc = "done"
              /\ calls'[Len(calls')].result = formatters[calls'[Len(calls')].url]
              /\ instances' = instances
         ]_vars

\* C15 witness: two overlapping calls for one URL have returned two
\* Formatter instances.
C15_Witness ==
    \E c \in 1..Len(calls), d \in 1..Len(calls) :
        /\ c < d
        /\ calls[c].url = calls[d].url
        /\ calls[c].pc = "done" /\ calls[d].pc = "done"
        /\ Decoded(c) /\ Decoded(d)
        /\ calls[c].result.id # calls[d].result.id

\* What a call that fetched leaves behind when it is resolved alone: the
\* Formatter of the fetched bytes, the entry with the derived file name and
\* their hash, and the file with these bytes.
AsIfAlone(c) ==
    LET fileName == UrlToFileName(calls[c].url)
        entry == GetProp(lockObject, calls[c].url)
    IN  /\ calls[c].result.bytes = calls[c].buffer
        /\ entry = LockObjectEntry(fileName, HashSha512(calls[c].buffer))
        /\ fileName \in DOMAIN files
        /\ files[fileName] = calls[c].buffer

\* C16 as claimed: when two calls for distinct URLs, made concurrently, have
\* both fetched and returned and their writes have ended, each URL has the
\* Formatter, the lock entry and the file content it has when resolved alone.
C16_DistinctIdsIndependent ==
    \A c \in 1..Len(calls), d \in 1..Len(calls) :
        ( /\ c # d
          /\ Len(calls) = 2
          /\ calls[c].url # calls[d].url
          /\ calls[c].pc = "done" /\ calls[d].pc = "done"
          /\ calls[c].fetches = 1 /\ calls[d].fetches = 1
          /\ writes = {} )
        => AsIfAlone(c) /\ AsIfAlone(d)

\* C17 as claimed: when a run of main has returned and quiesced after
\* writing the lock file, every entry of the lock file on disk names a file
\* that is in the cache directory and has the SHA-512 the entry records.
C17_PersistedEntriesMatchDisk ==
    ( /\ RunQuiesced
      /\ \A c \in 1..Len(calls) : calls[c].pc = "done"
      /\ \A k \in 1..Len(lockWrites) : lockWrites[k].pc = "done"
      /\ LOCK_FILE_NAME \in DOMAIN files )
    => LET parsed == JSONParse(files[LOCK_FILE_NAME]) IN
       /\ parsed.ok
       /\ \A k \in PropKeys(OwnProps(parsed.v)) :
             LET entry == GetProp(parsed.v, k) IN
             /\ IsLockObjectEntry(entry)
             /\ EntryFileName(entry) \in DOMAIN files
             /\ HashSha512(files[EntryFileName(entry)]) = EntryHash(entry)

\* No lock entry of another URL than that of call c names this file.
NamedByNoOtherEntry(c, fileName) ==
    \A k \in PropKeys(OwnProps(lockObject)) :
        (k # calls[c].url /\ IsLockObjectEntry(GetProp(lockObject, k)))
        => EntryFileName(GetProp(lockObject, k)) # fileName

\* C18 as claimed: a step of a loadFormatterFromUrl call, the landing of its
\* write included, deletes no file, leaves the lock file on disk as it is,
\* changes the lock entry and the Formatter of no other URL than its own, and
\* changes the content of no file but the one derived from its URL, and of
\* that one only when no other URL's entry names it.
C18_Frame ==
    [][ LockResolved =>
          /\ DOMAIN files \subseteq DOMAIN files'
          /\ (LOCK_FILE_NAME \in DOMAIN files') = (LOCK_FILE_NAME \in DOMAIN files)
          /\ LOCK_FILE_NAME \in DOMAIN files => files'[LOCK_FILE_NAME] = files[LOCK_FILE_NAME]
          /\ \A k \in PropKeys(OwnProps(lockObject)) \cup PropKeys(OwnProps(lockObject')) :
                GetProp(lockObject', k) # GetProp(lockObject, k)
                => \E c \in 1..Len(calls) : calls[c].url = k /\ calls'[c] # calls[c]
          /\ \A u \in DOMAIN formatters \cup DOMAIN formatters' :
                CachedFormatter(formatters', u) # CachedFormatter(formatters, u)
                => \E c \in 1..Len(calls) : calls[c].url = u /\ calls'[c] # calls[c]
          /\ \A n \in DOMAIN files :
                files'[n] # files[n]
                => \E w \in writes \ writes' :
                      /\ w.name = n
                      /\ n = UrlToFileName(calls[w.by].url)
                      /\ NamedByNoOtherEntry(w.by, n)
      ]_vars

\* The order of the steps of a call: from the read to the fetch or the end,
\* from the fetch to the mkdir or an error, from the mkdir to the end.
CallOrder ==
    { <<"reading", "done">>, <<"reading", "fetching">>, <<"reading", "raised">>,
      <<"fetching", "mkdir">>, <<"fetching", "raised">>,
      <<"mkdir", "done">>, <<"mkdir", "raised">> }

\* C19: when every I/O operation that was started ends, every call of
\* loadFormatterFromUrl returns or raises at last.  A call looks in
\* #formatters first and, with a Formatter there, issues no I/O; with a valid
\* lock entry it reads the entry's file before any fetch; it goes from the
\* read to the fetch, from the fetch to the mkdir and from there to its end,
\* never back; and it issues at most one read, one fetch and one mkdir.
C19_CallsEnd ==
    /\ \A c \in 1..MaxCalls :
          (Len(calls) >= c) ~> (Len(calls) >= c /\ calls[c].pc \in {"done", "raised"})
    /\ [](\A c \in 1..Len(calls) :
             calls[c].reads <= 1 /\ calls[c].fetches <= 1 /\ calls[c].mkdirs <= 1)
    /\ [][ /\ \A c \in 1..Len(calls) :
                 /\ calls'[c].pc # calls[c].pc => <<calls[c].pc, calls'[c].pc>> \in CallOrder
                 /\ calls'[c].fetches > calls[c].fetches => calls[c].pc = "reading"
           /\ Len(calls') = Len(calls) + 1
              => LET call == calls'[Len(calls')] IN
                 /\ call.url \in DOMAIN formatters
                    => call.pc = "done" /\ NoIO(call)
                 /\ (call.url \notin DOMAIN formatters
                     /\ IsLockObjectEntry(GetProp(lockObject, call.url)))
                    => call.pc = "reading" /\ call.fetches = 0
                 /\ (call.url \notin DOMAIN formatters
                     /\ ~IsLockObjectEntry(GetProp(lockObject, call.url)))
                    => call.pc = "fetching" /\ call.fetches = 1 /\ call.reads = 0
         ]_vars

\* C19 witness: a call has read its entry's file, fetched, made the directory
\* and returned, and a later call for its URL has returned at once.
C19_Witness ==
    \E c \in 1..Len(calls), d \in 1..Len(calls) :
        /\ c < d
        /\ calls[c].url = calls[d].url
        /\ calls[c].pc = "done"
        /\ calls[c].reads = 1 /\ calls[c].fetches = 1 /\ calls[c].mkdirs = 1
        /\ calls[d].pc = "done" /\ NoIO(calls[d])

\* C20 as claimed: between the steps of the calls, every URL with a Formatter
\* in #formatters has an entry in the lock object, and the file name of that
\* entry is in the set of files cleanCacheDir keeps.
C20_LoadedHasEntry ==
    LockResolved =>
       \A u \in DOMAIN formatters :
          /\ IsLockObjectEntry(GetProp(lockObject, u))
          /\ EntryFileName(GetProp(lockObject, u)) \in FilesToKeep(lockObject, TRUE)

=============================================================================
